---- MODULE Spec2Model ----
(***************************************************************************)
(* Black hole visualisation script (src/code.py).                          *)
(*                                                                         *)
(* The script computes a Schwarzschild radius from a mass, samples a       *)
(* square grid, evaluates the accretion-disk brightness field on it and    *)
(* issues a fixed list of drawing calls before writing one image file.     *)
(*                                                                         *)
(* Numbers.  The program computes in IEEE-754 binary64.  The model keeps   *)
(* the same operations in the same order, each one the exact result        *)
(* rounded to nearest-even, on a binary floating-point format with a       *)
(* significand of Precision bits (instead of 53) and an unbounded          *)
(* exponent (no overflow to infinity, no subnormals).  A number is the     *)
(* record [m, e, nan, inf] with value m * 2^e, where m = 0 or               *)
(* 2^(Precision-1) <= |m| < 2^Precision.  NaN arises from 0/0, inf - inf,  *)
(* inf/inf, 0 * inf and the square root of a negative number, and          *)
(* propagates.  An infinity (inf set, m its sign) arises from x/0 with      *)
(* x # 0.  Zero is unsigned: it divides as +0.                              *)
(***************************************************************************)
EXTENDS Integers, Sequences, FiniteSets

\* Significand width of the modelled floating-point format.
Precision == 14

\* Number of terms of the series that models numpy's exp.
ExpTerms == 30

\* Number of samples per grid axis (400 in the script).
GridN == 4

\* Masses (in solar masses) the run may be started with: -1 .. MaxMass.
MaxMass == 10

\* accretion_disk is exercised on cells (i * Rs, j * Rs), |i|, |j| <= MaxCoord.
MaxCoord == 6

-----------------------------------------------------------------------------
(* Floating-point arithmetic: Python float and numpy float64 operators.    *)

Abs(n) == IF n < 0 THEN -n ELSE n

Sgn(n) == IF n < 0 THEN -1 ELSE IF n > 0 THEN 1 ELSE 0

RECURSIVE BitLen(_)
BitLen(n) == IF n = 0 THEN 0 ELSE 1 + BitLen(n \div 2)

NaN == [m |-> 0, e |-> 0, nan |-> TRUE, inf |-> FALSE]

Zero == [m |-> 0, e |-> 0, nan |-> FALSE, inf |-> FALSE]

\* +infinity (sign = 1) or -infinity (sign = -1)
Inf(sign) == [m |-> sign, e |-> 0, nan |-> FALSE, inf |-> TRUE]

\* sign * n * 2^e (n >= 0; sticky: a nonzero remainder was dropped below n)
\* rounded to Precision bits, ties to even.
RoundNE(sign, n, e, sticky) ==
    IF n = 0 THEN Zero
    ELSE LET len == BitLen(n) IN
         IF len <= Precision
         THEN [m |-> sign * n * 2^(Precision - len),
               e |-> e - (Precision - len), nan |-> FALSE, inf |-> FALSE]
         ELSE LET k    == len - Precision
                  q    == n \div 2^k
                  rem  == n % 2^k
                  half == 2^(k - 1)
                  up   == rem > half \/ (rem = half /\ (sticky \/ q % 2 = 1))
                  q2   == IF up THEN q + 1 ELSE q
              IN  IF q2 = 2^Precision
                  THEN [m |-> sign * 2^(Precision - 1), e |-> e + k + 1,
                        nan |-> FALSE, inf |-> FALSE]
                  ELSE [m |-> sign * q2, e |-> e + k, nan |-> FALSE,
                        inf |-> FALSE]

FromInt(n) == RoundNE(Sgn(n), Abs(n), 0, FALSE)

One == FromInt(1)

FNeg(a) == IF a.nan THEN NaN ELSE [a EXCEPT !.m = -a.m]

FAbs(a) == IF a.nan THEN NaN ELSE [a EXCEPT !.m = Abs(a.m)]

FMul(a, b) ==
    IF a.nan \/ b.nan THEN NaN
    ELSE IF a.inf \/ b.inf
         THEN IF a.m = 0 \/ b.m = 0 THEN NaN ELSE Inf(Sgn(a.m) * Sgn(b.m))
    ELSE RoundNE(Sgn(a.m) * Sgn(b.m), Abs(a.m) * Abs(b.m), a.e + b.e, FALSE)

\* a / b: the quotient to Precision + 2 bits below the leading one, by long
\* division in two chunks, with the remainder as the sticky bit.  x/0 is
\* an infinity of the sign of x, 0/0 and inf/inf are NaN, x/inf is 0.
FDiv(a, b) ==
    IF a.nan \/ b.nan THEN NaN
    ELSE IF a.inf THEN (IF b.inf THEN NaN
                       ELSE Inf(IF b.m < 0 THEN -a.m ELSE a.m))
    ELSE IF b.inf THEN Zero
    ELSE IF b.m = 0 THEN (IF a.m = 0 THEN NaN ELSE Inf(Sgn(a.m)))
    ELSE IF a.m = 0 THEN Zero
    ELSE LET d  == Abs(b.m)
             h1 == (Precision + 2) \div 2
             h2 == (Precision + 2) - h1
             q0 == Abs(a.m) \div d
             r0 == Abs(a.m) % d
             q1 == (r0 * 2^h1) \div d
             r1 == (r0 * 2^h1) % d
             q2 == (r1 * 2^h2) \div d
             r2 == (r1 * 2^h2) % d
         IN  RoundNE(Sgn(a.m) * Sgn(b.m), (q0 * 2^h1 + q1) * 2^h2 + q2,
                     a.e - b.e - (Precision + 2), r2 # 0)

\* a + b with a.e >= b.e.  When the exponents differ by more than
\* Precision + 1, b is below a quarter of a's last place and a is the sum.
AddOrdered(a, b) ==
    IF b.m = 0 THEN a
    ELSE IF a.m = 0 THEN b
    ELSE IF a.e - b.e > Precision + 1 THEN a
    ELSE LET s == a.m * 2^(a.e - b.e) + b.m
         IN  RoundNE(Sgn(s), Abs(s), b.e, FALSE)

FAdd(a, b) ==
    IF a.nan \/ b.nan THEN NaN
    ELSE IF a.inf THEN (IF b.inf /\ b.m # a.m THEN NaN ELSE a)
    ELSE IF b.inf THEN b
    ELSE IF a.e >= b.e THEN AddOrdered(a, b) ELSE AddOrdered(b, a)

FSub(a, b) == FAdd(a, FNeg(b))

\* Comparisons are false on NaN, as in IEEE-754.
FLt(a, b) == ~a.nan /\ ~b.nan /\ a # b /\ FSub(a, b).m < 0

FLe(a, b) == ~a.nan /\ ~b.nan /\ (a = b \/ FSub(a, b).m < 0)

RECURSIVE IsqrtBetween(_, _, _)
IsqrtBetween(n, lo, hi) ==
    IF hi - lo <= 1 THEN lo
    ELSE LET mid == (lo + hi) \div 2
         IN  IF mid * mid <= n THEN IsqrtBetween(n, mid, hi)
             ELSE IsqrtBetween(n, lo, mid)

\* floor(sqrt(n)) for 0 <= n < 2^31
Isqrt(n) == IsqrtBetween(n, 0, 46341)

\* sqrt(a): the root of the significand scaled to an even exponent, one
\* further bit from the remainder, and the rest as the sticky bit.
FSqrt(a) ==
    IF a.nan \/ a.m < 0 THEN NaN
    ELSE IF a.inf THEN a
    ELSE IF a.m = 0 THEN Zero
    ELSE LET j   == IF (a.e - Precision) % 2 = 0 THEN Precision
                    ELSE Precision + 1
             n   == a.m * 2^j
             s   == Isqrt(n)
             bit == IF n - s * s > s THEN 1 ELSE 0
         IN  RoundNE(1, 2 * s + bit, ((a.e - j) \div 2) - 1,
                     bit = 1 \/ n # s * s)

\* The exponential series 1 + t/1 * (1 + t/2 * (1 + ... t/ExpTerms)),
\* evaluated from the innermost term outwards: acc is the value of the
\* bracket that follows t/k.
RECURSIVE ExpSeries(_, _, _)
ExpSeries(t, k, acc) ==
    IF acc.nan THEN NaN
    ELSE IF k = 0 THEN acc
    ELSE ExpSeries(t, k - 1, FAdd(One, FDiv(FMul(t, acc), FromInt(k))))

\* np.exp: for t >= 0 the series, for t < 0 its reciprocal at -t.  Every
\* step is monotone in t, so the modelled exp is monotone as exp is.
FExp(t) ==
    IF t.nan THEN NaN
    ELSE IF t.inf THEN (IF t.m > 0 THEN t ELSE Zero)
    ELSE IF t.m >= 0 THEN ExpSeries(t, ExpTerms, One)
    ELSE FDiv(One, ExpSeries(FNeg(t), ExpTerms, One))

FMax(a, b) == IF a.nan \/ b.nan THEN NaN ELSE IF FLt(a, b) THEN b ELSE a

FMin(a, b) == IF a.nan \/ b.nan THEN NaN ELSE IF FLt(b, a) THEN b ELSE a

\* np.clip(v, lo, hi) = minimum(maximum(v, lo), hi)
Clip(v, lo, hi) == FMin(FMax(v, lo), hi)

RECURSIVE Pow10(_)
\* 10^k as a float, by squaring
Pow10(k) ==
    IF k = 0 THEN One
    ELSE IF k % 2 = 1 THEN FMul(FromInt(10), Pow10(k - 1))
    ELSE LET h == Pow10(k \div 2) IN FMul(h, h)

\* The decimal literal n e k (n * 10^k)
Dec(n, k) ==
    IF k >= 0 THEN FMul(FromInt(n), Pow10(k))
    ELSE FDiv(FromInt(n), Pow10(-k))

-----------------------------------------------------------------------------
(* The two functions of the script.                                        *)

\* G = 6.67430e-11
G == Dec(667430, -16)

\* c = 299792458
c == FromInt(299792458)

\* 1.98847e30, kilograms per solar mass
SolarMass == Dec(198847, 25)

\* A slip of the kind `M + 1.98847e30`: the conversion adds instead of scaling.
schwarzschild_radius_added(mass) ==
    LET kg == FAdd(mass, SolarMass)
    IN  FDiv(FMul(FMul(FromInt(2), G), kg), FMul(c, c))

\* A slip of the kind `c*2` for `c**2`.
schwarzschild_radius_twice_c(mass) ==
    LET kg == FMul(mass, SolarMass)
    IN  FDiv(FMul(FMul(FromInt(2), G), kg), FMul(c, FromInt(2)))

\* M = M * 1.98847e30; return 2 * G * M / c**2
\* (c**2 is an exact Python integer converted once; here c is rounded to the
\* format first and squared in it.)
schwarzschild_radius(mass) ==
    LET kg == FMul(mass, SolarMass)
    IN  FDiv(FMul(FMul(FromInt(2), G), kg), FMul(c, c))

\* A slip of the kind `y*2` for `y**2`.
disk_r_doubled(xx, yy) == FSqrt(FAdd(FMul(xx, xx), FMul(yy, FromInt(2))))

\* r = np.sqrt(x**2 + y**2)
disk_r(xx, yy) == FSqrt(FAdd(FMul(xx, xx), FMul(yy, yy)))

\* The brightness the prose describes: a peak at 3 Rs, exp(-|r - 3 Rs| / Rs).
disk_brightness_peaked(rr, rad) ==
    FExp(FNeg(FDiv(FAbs(FSub(rr, FMul(rad, FromInt(3)))), rad)))

\* A sign slip: exp((r - 3 Rs) / Rs).
disk_brightness_unnegated(rr, rad) ==
    FExp(FDiv(FSub(rr, FMul(rad, FromInt(3))), rad))

\* brightness = np.exp(-((r - Rs * 3) / Rs))
disk_brightness(rr, rad) ==
    FExp(FNeg(FDiv(FSub(rr, FMul(rad, FromInt(3))), rad)))

\* The taper without its clamp.
disk_color_unclipped(rr, rad) == FSub(One, FDiv(rr, FMul(FromInt(5), rad)))

\* The taper reaching zero at 6 Rs instead of 5 Rs.
disk_color_wide(rr, rad) ==
    Clip(FSub(One, FDiv(rr, FMul(FromInt(6), rad))), Zero, One)

\* color = np.clip(1 - r / (5 * Rs), 0, 1)
disk_color(rr, rad) ==
    Clip(FSub(One, FDiv(rr, FMul(FromInt(5), rad))), Zero, One)

\* accretion_disk on one cell: return brightness * color
accretion_disk(xx, yy, rad) ==
    LET rr == disk_r(xx, yy)
    IN  FMul(disk_brightness(rr, rad), disk_color(rr, rad))

\* accretion_disk on arrays: numpy applies every operation cell by cell.
accretion_disk_grid(XX, YY, rad) ==
    [j \in 1..Len(XX) |->
        [i \in 1..Len(XX[j]) |-> accretion_disk(XX[j][i], YY[j][i], rad)]]

\* np.linspace(start, stop, num), endpoint included: i * step + start with
\* step = (stop - start) / (num - 1), (i / (num - 1)) * (stop - start) + start
\* when the step is zero, and the last sample set to stop.
linspace(start, stop, num) ==
    LET delta == FSub(stop, start)
        div   == FromInt(num - 1)
        step  == FDiv(delta, div)
    IN  [i \in 1..num |->
            IF i = num /\ num > 1 THEN stop
            ELSE IF step.m = 0 /\ ~step.nan
                 THEN FAdd(FMul(FDiv(FromInt(i - 1), div), delta), start)
                 ELSE FAdd(FMul(FromInt(i - 1), step), start)]

\* np.meshgrid(x, y): X[j][i] = x[i], Y[j][i] = y[j]
meshgrid(xs, ys) ==
    [X |-> [j \in 1..Len(ys) |-> xs],
     Y |-> [j \in 1..Len(ys) |-> [i \in 1..Len(xs) |-> ys[j]]]]

-----------------------------------------------------------------------------
(* The script, statement by statement.                                     *)

VARIABLES
    pc,         \* the statement the script executes next
    bound,      \* the module-level names that have been assigned
    M, Rs, x, y, X, Y, Z,
    image,      \* the data handed to ax.imshow
    drawn,      \* the calls made on the current axes, in order
    angle,      \* how many iterations of the Hawking loop have run
    file,       \* <<>> or <<the image file written by savefig>>
    \* one call of accretion_disk on a single cell
    stage, cx, cy, cRs, r, brightness, color, out

scriptVars == <<pc, bound, M, Rs, x, y, X, Y, Z, image, drawn, angle, file>>

diskVars == <<stage, cx, cy, cRs, r, brightness, color, out>>

vars == <<scriptVars, diskVars>>

\* for angle in np.linspace(0, 2 * np.pi, 8, endpoint=False)
HawkingArrows == 8

\* The statements after `M = 10`, in program order, then the end.
Script ==
    << "Rs", "x", "y", "meshgrid", "Z", "subplots", "imshow", "set_aspect",
       "axis_off", "add_event_horizon", "text_event_horizon",
       "text_radius_formula", "add_singularity", "text_singularity",
       "annotate_interior", "text_distorted", "for_angle", "hawking_arrow",
       "text_hawking", "text_hawking_formula", "FIG_PATH", "savefig",
       "done" >>

\* The same statements with savefig moved before the Hawking annotations.
ScriptSavingEarly ==
    << "Rs", "x", "y", "meshgrid", "Z", "subplots", "imshow", "set_aspect",
       "axis_off", "add_event_horizon", "text_event_horizon",
       "text_radius_formula", "add_singularity", "text_singularity",
       "annotate_interior", "text_distorted", "FIG_PATH", "savefig",
       "for_angle", "hawking_arrow", "text_hawking", "text_hawking_formula",
       "done" >>

Pos(p) == CHOOSE k \in 1..Len(Script) : Script[k] = p

NextPc_saving_early(p) ==
    LET k == CHOOSE n \in 1..Len(ScriptSavingEarly) : ScriptSavingEarly[n] = p
    IN  ScriptSavingEarly[k + 1]

\* The statement that follows p: the script has no branch and no jump.
NextPc(p) == Script[Pos(p) + 1]

\* The calls on the axes that take one statement each.
DrawStatements ==
    { "set_aspect", "axis_off", "add_event_horizon", "text_event_horizon",
      "text_radius_formula", "add_singularity", "text_singularity",
      "annotate_interior", "text_distorted", "text_hawking",
      "text_hawking_formula" }

\* M = 10: the mass is the script's one parameter.
Masses == { FromInt(k) : k \in -1..MaxMass }

\* An axis built once and reused by later runs.
GridAxis_cached ==
    IF "x" \in bound THEN x
    ELSE linspace(FMul(FromInt(-5), Rs), FMul(FromInt(5), Rs), GridN)

\* np.linspace(-5 * Rs, 5 * Rs, 400)
GridAxis == linspace(FMul(FromInt(-5), Rs), FMul(FromInt(5), Rs), GridN)

ScriptIdle ==
    /\ pc = "idle" /\ bound = {} /\ M = Zero /\ Rs = Zero
    /\ x = <<>> /\ y = <<>> /\ X = <<>> /\ Y = <<>> /\ Z = <<>>
    /\ image = <<>> /\ drawn = <<>> /\ angle = 0 /\ file = <<>>

DiskIdle ==
    /\ stage = "idle" /\ cx = Zero /\ cy = Zero /\ cRs = Zero
    /\ r = Zero /\ brightness = Zero /\ color = Zero /\ out = Zero

\* The state after `M = 10`, for each mass the parameter may be set to.
Init ==
    /\ M \in Masses
    /\ pc = "Rs" /\ bound = {"M"} /\ Rs = Zero
    /\ x = <<>> /\ y = <<>> /\ X = <<>> /\ Y = <<>> /\ Z = <<>>
    /\ image = <<>> /\ drawn = <<>> /\ angle = 0 /\ file = <<>>
    /\ DiskIdle

\* Rs = schwarzschild_radius(M)
ComputeRadius ==
    /\ pc = "Rs"
    /\ Rs' = schwarzschild_radius(M)
    /\ bound' = bound \cup {"Rs"}
    /\ pc' = NextPc(pc)
    /\ UNCHANGED <<M, x, y, X, Y, Z, image, drawn, angle, file, diskVars>>

\* x = np.linspace(-5 * Rs, 5 * Rs, 400)
BuildX ==
    /\ pc = "x"
    /\ x' = GridAxis
    /\ bound' = bound \cup {"x"}
    /\ pc' = NextPc(pc)
    /\ UNCHANGED <<M, Rs, y, X, Y, Z, image, drawn, angle, file, diskVars>>

\* y = np.linspace(-5 * Rs, 5 * Rs, 400)
BuildY ==
    /\ pc = "y"
    /\ y' = GridAxis
    /\ bound' = bound \cup {"y"}
    /\ pc' = NextPc(pc)
    /\ UNCHANGED <<M, Rs, x, X, Y, Z, image, drawn, angle, file, diskVars>>

\* X, Y = np.meshgrid(x, y)
Meshgrid ==
    /\ pc = "meshgrid"
    /\ X' = meshgrid(x, y).X
    /\ Y' = meshgrid(x, y).Y
    /\ bound' = bound \cup {"X", "Y"}
    /\ pc' = NextPc(pc)
    /\ UNCHANGED <<M, Rs, x, y, Z, image, drawn, angle, file, diskVars>>

\* Z = accretion_disk(X, Y, Rs)
ComputeField ==
    /\ pc = "Z"
    /\ Z' = accretion_disk_grid(X, Y, Rs)
    /\ bound' = bound \cup {"Z"}
    /\ pc' = NextPc(pc)
    /\ UNCHANGED <<M, Rs, x, y, X, Y, image, drawn, angle, file, diskVars>>

\* fig, ax = plt.subplots(...): a new figure with empty axes
Subplots ==
    /\ pc = "subplots"
    /\ drawn' = <<>>
    /\ image' = <<>>
    /\ bound' = bound \cup {"fig", "ax"}
    /\ pc' = NextPc(pc)
    /\ UNCHANGED <<M, Rs, x, y, X, Y, Z, angle, file, diskVars>>

\* image = ax.imshow(Z, extent=(x.min(), x.max(), y.min(), y.max()), ...)
Imshow ==
    /\ pc = "imshow"
    /\ image' = Z
    /\ drawn' = Append(drawn, "imshow")
    /\ bound' = bound \cup {"image"}
    /\ pc' = NextPc(pc)
    /\ UNCHANGED <<M, Rs, x, y, X, Y, Z, angle, file, diskVars>>

\* ax.set_aspect, ax.axis, ax.add_patch, ax.text, ax.annotate: one call each
DrawStatement ==
    /\ pc \in DrawStatements
    /\ drawn' = Append(drawn, pc)
    /\ pc' = NextPc(pc)
    /\ UNCHANGED <<bound, M, Rs, x, y, X, Y, Z, image, angle, file, diskVars>>

\* for angle in np.linspace(0, 2 * np.pi, 8, endpoint=False): a new iterator
ForAngle ==
    /\ pc = "for_angle"
    /\ angle' = 0
    /\ pc' = NextPc(pc)
    /\ UNCHANGED <<bound, M, Rs, x, y, X, Y, Z, image, drawn, file, diskVars>>

\* the loop body, ax.annotate('', ...), and the step to the next iteration
HawkingArrow ==
    /\ pc = "hawking_arrow"
    /\ angle < HawkingArrows
    /\ drawn' = Append(drawn, "hawking_arrow")
    /\ angle' = angle + 1
    /\ bound' = bound \cup {"angle"}
    /\ pc' = IF angle + 1 = HawkingArrows THEN NextPc(pc) ELSE pc
    /\ UNCHANGED <<M, Rs, x, y, X, Y, Z, image, file, diskVars>>

\* FIG_PATH = "./Black_hole_visualization_HR.png"
SetFigPath ==
    /\ pc = "FIG_PATH"
    /\ bound' = bound \cup {"FIG_PATH"}
    /\ pc' = NextPc(pc)
    /\ UNCHANGED <<M, Rs, x, y, X, Y, Z, image, drawn, angle, file, diskVars>>

\* fig.savefig(FIG_PATH, ...): the file holds what the figure holds now
SaveFig ==
    /\ pc = "savefig"
    /\ file' = << [image |-> image, drawn |-> drawn] >>
    /\ pc' = NextPc(pc)
    /\ UNCHANGED <<bound, M, Rs, x, y, X, Y, Z, image, drawn, angle, diskVars>>

Next ==
    \/ ComputeRadius
    \/ BuildX
    \/ BuildY
    \/ Meshgrid
    \/ ComputeField
    \/ Subplots
    \/ Imshow
    \/ DrawStatement
    \/ ForAngle
    \/ HawkingArrow
    \/ SetFigPath
    \/ SaveFig

\* One run of the script for each mass.
Spec == Init /\ [][Next]_vars

\* The script run again in the same interpreter with the mass set anew: the
\* module-level names and the file of the earlier run are still there.
Rerun ==
    /\ pc = "done"
    /\ M' \in Masses
    /\ pc' = "Rs"
    /\ UNCHANGED <<bound, Rs, x, y, X, Y, Z, image, drawn, angle, file,
                   diskVars>>

NextRerun == Next \/ Rerun

SpecRerun == Init /\ [][NextRerun]_vars

-----------------------------------------------------------------------------
(* accretion_disk called on one cell, line by line.                        *)

\* The radii accretion_disk is called with: the radii of the odd masses (an
\* even mass has the significand of its half, and rounds alike), and 1.
DiskRadii ==
    { schwarzschild_radius(FromInt(k)) : k \in { n \in 1..MaxMass : n % 2 = 1 } }
        \cup { One }

InitDisk ==
    /\ ScriptIdle
    /\ stage = "call"
    /\ cRs \in DiskRadii
    /\ \E i, j \in -MaxCoord..MaxCoord :
          /\ cx = FMul(FromInt(i), cRs)
          /\ cy = FMul(FromInt(j), cRs)
    /\ r = Zero /\ brightness = Zero /\ color = Zero /\ out = Zero

\* r = np.sqrt(x**2 + y**2)
DiskR ==
    /\ stage = "call"
    /\ r' = disk_r(cx, cy)
    /\ stage' = "r"
    /\ UNCHANGED <<scriptVars, cx, cy, cRs, brightness, color, out>>

\* brightness = np.exp(-((r - Rs * 3) / Rs))
DiskBrightness ==
    /\ stage = "r"
    /\ brightness' = disk_brightness(r, cRs)
    /\ stage' = "brightness"
    /\ UNCHANGED <<scriptVars, cx, cy, cRs, r, color, out>>

\* color = np.clip(1 - r / (5 * Rs), 0, 1)
DiskColor ==
    /\ stage = "brightness"
    /\ color' = disk_color(r, cRs)
    /\ stage' = "color"
    /\ UNCHANGED <<scriptVars, cx, cy, cRs, r, brightness, out>>

\* return brightness * color
DiskReturn ==
    /\ stage = "color"
    /\ out' = FMul(brightness, color)
    /\ stage' = "returned"
    /\ UNCHANGED <<scriptVars, cx, cy, cRs, r, brightness, color>>

NextDisk == DiskR \/ DiskBrightness \/ DiskColor \/ DiskReturn

SpecDisk == InitDisk /\ [][NextDisk]_vars

-----------------------------------------------------------------------------
(* Properties.                                                             *)

\* The current run has executed statement p.
Past(p) == Pos(pc) > Pos(p)

\* |a - n| <= n / 1000 for a float a and a natural n, in exact arithmetic.
WithinPermille(a, n) ==
    /\ ~a.nan /\ ~a.inf
    /\ a.e <= 30 - Precision
    /\ IF a.e >= 0
       THEN Abs(a.m * 2^a.e - n) * 1000 <= n
       ELSE Abs(a.m - n * 2^(-a.e)) * 1000 <= n * 2^(-a.e)

\* |a - b| <= |b| / 1000
CloseTo(a, b) == FLe(FMul(FAbs(FSub(a, b)), FromInt(1000)), FAbs(b))

\* C1: for every mass M > 0 the radius computed from it is strictly
\* positive, and the radius of the doubled mass is twice the radius of M.
C1_RadiusPositiveAndLinear ==
    (Past("Rs") /\ FLt(Zero, M)) =>
        /\ FLt(Zero, Rs)
        /\ schwarzschild_radius(FMul(FromInt(2), M)) = FMul(FromInt(2), Rs)

C1_Witness == Past("Rs") /\ M = FromInt(7) /\ FLt(Zero, Rs)

\* C2: the radius computed for M = 10 is within a relative 1e-3 of 29,539 m.
C2_RadiusOfTenSolarMasses ==
    (Past("Rs") /\ M = FromInt(10)) => WithinPermille(Rs, 29539)

C2_Witness == pc = "x" /\ M = FromInt(10) /\ "Rs" \in bound

\* C3: a cell whose computed distance r is at least 5 Rs gets the value 0,
\* whatever its brightness term is.
C3_ZeroFromFiveRs ==
    (stage = "returned" /\ FLe(FMul(FromInt(5), cRs), r)) => out = Zero

C3_Witness ==
    /\ stage = "returned"
    /\ r = FMul(FromInt(5), cRs)
    /\ FLt(Zero, brightness)
    /\ out = Zero

\* C4: the color factor of every cell lies in [0, 1].
C4_ColorInUnitInterval ==
    stage \in {"color", "returned"} => FLe(Zero, color) /\ FLe(color, One)

C4_Witness ==
    /\ stage = "color"
    /\ FLt(FMul(FromInt(5), cRs), r)
    /\ color = Zero

\* The brightness term at distance k Rs, for the radius of the call.
BrightnessAt(k) == disk_brightness(FMul(FromInt(k), cRs), cRs)

\* C5 as claimed: the brightness term grows with r below 3 Rs, peaks at
\* 3 Rs and decays above it.
C5_PeakAtThreeRs ==
    stage = "brightness" =>
        /\ FLe(brightness, BrightnessAt(3))
        /\ \A k \in 0..3 :
              FLe(r, FMul(FromInt(k), cRs)) => FLe(brightness, BrightnessAt(k))
        /\ \A k \in 3..MaxCoord :
              FLe(FMul(FromInt(k), cRs), r) => FLe(brightness, BrightnessAt(k))

\* C5, amended: the brightness term never grows with r.  It is largest at
\* r = 0, is 1 at r = 3 Rs and decays on both sides of 3 Rs.
C5_BrightnessDecreasing ==
    stage = "brightness" =>
        /\ FLe(brightness, BrightnessAt(0))
        /\ r = FMul(FromInt(3), cRs) => brightness = One
        /\ \A k \in 0..MaxCoord :
              /\ FLe(r, FMul(FromInt(k), cRs)) =>
                    FLe(BrightnessAt(k), brightness)
              /\ FLe(FMul(FromInt(k), cRs), r) =>
                    FLe(brightness, BrightnessAt(k))

C5_Witness ==
    /\ stage = "brightness"
    /\ FLt(Zero, r)
    /\ FLt(r, FMul(FromInt(3), cRs))
    /\ FLt(One, brightness)
    /\ FLt(brightness, BrightnessAt(0))

\* C6: at the origin r = 0 and color = 1, and the value returned is the
\* brightness, exp(3) within floating tolerance (a relative 1e-3), for every
\* radius.
C6_ValueAtOrigin ==
    (stage = "returned" /\ cx = Zero /\ cy = Zero) =>
        /\ r = Zero
        /\ color = One
        /\ out = brightness
        /\ CloseTo(out, FExp(FromInt(3)))

\* An origin cell whose value is not the very float exp(3): (0 - 3 Rs) / Rs
\* rounds away from -3 for this radius.
C6_Witness ==
    /\ stage = "returned" /\ cx = Zero /\ cy = Zero
    /\ out # FExp(FromInt(3))
    /\ CloseTo(out, FExp(FromInt(3)))

\* C7: a cell and its reflection through the origin get the same value.
C7_PointSymmetry ==
    stage = "returned" => out = accretion_disk(FNeg(cx), FNeg(cy), cRs)

C7_Witness ==
    /\ stage = "returned"
    /\ FLt(Zero, cx) /\ FLt(cy, Zero)
    /\ FLt(Zero, out)

\* The field of a run that starts with nothing assigned.
FreshField(mass) ==
    LET rad  == schwarzschild_radius(mass)
        axis == linspace(FMul(FromInt(-5), rad), FMul(FromInt(5), rad), GridN)
        grid == meshgrid(axis, axis)
    IN  accretion_disk_grid(grid.X, grid.Y, rad)

\* C8: the field a run computes is the field of its mass alone, whatever an
\* earlier run left assigned; so two runs with one mass agree, and the file
\* written holds that field.
C8_FieldDependsOnlyOnMass ==
    /\ pc = "subplots" => Z = FreshField(M)
    /\ pc = "done" => file # <<>> /\ file[1].image = Z

\* A run has computed its field while the file of an earlier run, with a
\* different field, is still there.
C8_Witness ==
    /\ pc = "subplots"
    /\ file # <<>>
    /\ file[1].image # Z
    /\ FLt(Zero, M)

\* C9 as claimed: a mass M <= 0 is rejected before the grid is constructed.
C9_NonPositiveMassRejected ==
    ~FLt(Zero, M) => bound \cap {"x", "y", "X", "Y", "Z"} = {}

\* The calls a complete figure has received.
NumDrawCalls == Cardinality(DrawStatements) + 1 + HawkingArrows

Count(seq, v) == Cardinality({ k \in 1..Len(seq) : seq[k] = v })

====
